---- MODULE Spec2Model ----
(***************************************************************************)
(* Double-deduct (DD) analyzer of src/analyzer.py.                          *)
(*                                                                         *)
(* A table (DataFrame) of tap events is classified row by row by           *)
(* analyze_all_transactions, which calls is_double_deduct(df, idx) for     *)
(* every index and writes the four verdict columns.                        *)
(*                                                                         *)
(* Modelling conventions                                                   *)
(*  - a row is a record; table positions are 1..Len(df) (pandas 0..n-1);    *)
(*  - trx_on is a timestamp in ticks of half a second since midnight of    *)
(*    day 0 (pandas timestamps carry a sub-second part);                    *)
(*  - trx (the kind label) is the set of markers the label contains, so    *)
(*    the source's substring test  "[IN]" in trx  is  "[IN]" \in trx;       *)
(*  - terminal_name_var is the sequence of whitespace separated tokens of   *)
(*    the name, a token " " at either end standing for leading or trailing  *)
(*    whitespace; <<"UNKNOWN">> is the literal UNKNOWN, the empty sequence  *)
(*    a null name or the empty string;                                      *)
(*  - None is the empty sequence, a present value v is <<v>>;               *)
(*  - row.nulls is the set of column names whose value is null (pd.isnull), *)
(*    row.empty the set of columns holding the empty string '' and row.text *)
(*    the set of columns holding a non-empty string that is no number; the  *)
(*    record field of such a column is not looked at.                       *)
(***************************************************************************)
EXTENDS Integers, Sequences, FiniteSets, TLC

VARIABLES df, pc, pos, is_dd, dd_refund, dd_step, is_integration, call

vars == <<df, pc, pos, is_dd, dd_refund, dd_step, is_integration, call>>

-----------------------------------------------------------------------------
(* Time helpers: datetime fields of a timestamp given in seconds.           *)

TicksPerSecond == 2

DaySeconds == 86400

(* Timestamp.hour / .minute / .second: whole fields, the sub-second part is *)
(* not part of any of them.                                                 *)
hour(t) == ((t \div TicksPerSecond) % DaySeconds) \div 3600

minute(t) == (((t \div TicksPerSecond) % DaySeconds) % 3600) \div 60

second(t) == ((t \div TicksPerSecond) % DaySeconds) % 60

(* The timestamp h:m:s.000 of day 0, and timedeltas.                        *)
HMS(h, m, s) == (h * 3600 + m * 60 + s) * TicksPerSecond

Hours(n) == n * 3600 * TicksPerSecond

Minutes(n) == n * 60 * TicksPerSecond

(* f"{gap_seconds:.0f}": seconds rounded half to even.                      *)
RoundSeconds(ticks) ==
    LET q == ticks \div TicksPerSecond
        rem == ticks % TicksPerSecond
    IN  IF 2 * rem < TicksPerSecond THEN q
        ELSE IF 2 * rem > TicksPerSecond THEN q + 1
        ELSE IF q % 2 = 0 THEN q ELSE q + 1

abs(x) == IF x < 0 THEN -x ELSE x

isnull(row, col) == col \in row.nulls

(* row[col] == '' and: row[col] is a string that int() and abs() refuse.    *)
isempty(row, col) == col \in row.empty

istext(row, col) == col \in row.text

(* bool(row[col]): NaN and every non-empty string are true, '' is false.    *)
truthy(row, col, v) ==
    IF isnull(row, col) \/ istext(row, col) THEN TRUE
    ELSE IF isempty(row, col) THEN FALSE
    ELSE v

(* int(row[col]) if row[col] != '' else 0, for a column int() accepts.      *)
int_or_zero(row, col, v) == IF isempty(row, col) THEN 0 ELSE v

-----------------------------------------------------------------------------
(* is_payment_transaction: does the row really deduct the balance?          *)

(* Lines 103-106: a null field is no payment.  Lines 109-112: int() of a    *)
(* non-numeric string raises ValueError, caught at line 132: no payment.    *)
is_payment_transaction(row) ==
    IF \/ isnull(row, "deduct_boo") \/ isnull(row, "fare_int")
       \/ isnull(row, "balance_before_int") \/ isnull(row, "balance_int")
    THEN FALSE
    ELSE IF \/ istext(row, "fare_int") \/ istext(row, "balance_before_int")
            \/ istext(row, "balance_int")
    THEN FALSE
    ELSE LET deduct_flag == truthy(row, "deduct_boo", row.deduct_boo)
             fare == int_or_zero(row, "fare_int", row.fare_int)
             balance_before ==
                 int_or_zero(row, "balance_before_int", row.balance_before_int)
             balance_after == int_or_zero(row, "balance_int", row.balance_int)
             is_deduct_true == (deduct_flag = TRUE)
             has_fare == fare > 0
             balance_reduced == balance_before > balance_after
             actual_deduction == balance_before - balance_after
             is_mathematically_consistent == abs(actual_deduction - fare) <= 1
         IN  is_deduct_true /\ has_fare /\ balance_reduced
             /\ is_mathematically_consistent

(* is_subsidi_time: morning subsidy window 05:00:00 - 07:00:00 inclusive.   *)
is_subsidi_time(trx_time) ==
    IF hour(trx_time) = 5 \/ hour(trx_time) = 6 THEN TRUE
    ELSE IF hour(trx_time) = 7 /\ minute(trx_time) = 0 /\ second(trx_time) = 0
         THEN TRUE
         ELSE FALSE

SubsidiFare == 3500

SubsidiRefund == 1500

IntegrationThreshold == 3500

is_integration_fare(fare_int) == fare_int > IntegrationThreshold

-----------------------------------------------------------------------------
(* Terminal names.  parse_terminal_name strips the channel prefix; the      *)
(* four regular expressions are tried in order on the token sequence.       *)

Digits == {"1", "2", "3"}

Rest(s, n) == SubSeq(s, n + 1, Len(s))

(* str.strip(): whitespace at both ends is dropped.                         *)
RECURSIVE strip(_)
strip(name) ==
    IF name = <<>> THEN name
    ELSE IF name[1] = " " THEN strip(Rest(name, 1))
    ELSE IF name[Len(name)] = " " THEN strip(SubSeq(name, 1, Len(name) - 1))
    ELSE name

(* str.upper(), token by token.                                             *)
upper_token(tok) ==
    CASE tok = "unknown" -> "UNKNOWN"
      [] tok = "gate" -> "GATE"
      [] tok = "tob" -> "TOB"
      [] tok = "halte" -> "HALTE"
      [] tok = "a" -> "A"
      [] tok = "b" -> "B"
      [] OTHER -> tok

upper(name) == [k \in 1..Len(name) |-> upper_token(name[k])]

(* Lines 212-226: the four patterns, tried in order on the stripped and     *)
(* upper-cased name.                                                        *)
match_patterns(terminal_name) ==
    IF Len(terminal_name) >= 3 /\ terminal_name[1] = "GATE"
            /\ terminal_name[2] \in Digits
         THEN Rest(terminal_name, 2)
    ELSE IF Len(terminal_name) >= 3 /\ terminal_name[1] = "TOB"
            /\ terminal_name[2] = "HALTE"
         THEN Rest(terminal_name, 2)
    ELSE IF Len(terminal_name) >= 2 /\ terminal_name[1] = "TOB"
         THEN Rest(terminal_name, 1)
    ELSE IF Len(terminal_name) >= 2 /\ terminal_name[1] = "HALTE"
         THEN Rest(terminal_name, 1)
    ELSE terminal_name

(* Lines 205-206 test the name as given, before it is stripped and          *)
(* upper-cased.                                                             *)
parse_terminal_name(terminal_name) ==
    IF terminal_name = <<>> \/ terminal_name = <<"UNKNOWN">> THEN <<>>
    ELSE match_patterns(upper(strip(terminal_name)))

(* Mutant: the test for an empty parsed name is left out.                   *)
is_same_terminal_group_NoEmptyTest(terminal1, terminal2) ==
    parse_terminal_name(terminal1) = parse_terminal_name(terminal2)

is_same_terminal_group(terminal1, terminal2) ==
    LET parsed1 == parse_terminal_name(terminal1)
        parsed2 == parse_terminal_name(terminal2)
    IN  IF parsed1 = <<>> \/ parsed2 = <<>> THEN FALSE
        ELSE parsed1 = parsed2

-----------------------------------------------------------------------------
(* Kind tests of the replay.                                                *)

IsIn(trx_type) ==
    "[IN]" \in trx_type /\ ("GATE" \in trx_type \/ "TOB" \in trx_type)

IsUnblokir(trx_type) == "UNBLOKIR" \in trx_type

IsOut(trx_type) ==
    "[OUT]" \in trx_type /\ ("GATE" \in trx_type \/ "TOB" \in trx_type)

(* sort_values(by="trx_on"): ascending by time, rows with equal time keep   *)
(* their table order.  s is a sequence of table positions in table order.   *)
RECURSIVE InsertByTime(_, _, _)
InsertByTime(d, sorted, i) ==
    IF sorted = <<>> THEN <<i>>
    ELSE IF d[sorted[Len(sorted)]].trx_on <= d[i].trx_on
         THEN Append(sorted, i)
         ELSE Append(InsertByTime(d, SubSeq(sorted, 1, Len(sorted) - 1), i),
                     sorted[Len(sorted)])

RECURSIVE SortByTime(_, _)
SortByTime(d, s) ==
    IF s = <<>> THEN <<>>
    ELSE InsertByTime(d, SortByTime(d, SubSeq(s, 1, Len(s) - 1)), s[Len(s)])

(* The table positions 1..n, in table order (the DataFrame index).          *)
Positions(n) == [i \in 1..n |-> i]

(* Mutant: the replay takes the rows of every card up to the index.         *)
card_transactions_AllCards(d, current_idx) ==
    LET Sel(i) == i <= current_idx
    IN  SortByTime(d, SelectSeq(Positions(Len(d)), Sel))

(* Mutant: rows already flagged DD by the batch are left out of the replay. *)
card_transactions_SkipsFlagged(d, current_idx) ==
    LET current_card == d[current_idx].card_number_var
        Sel(i) == /\ d[i].card_number_var = current_card /\ i <= current_idx
                  /\ ~d[i].is_dd
    IN  SortByTime(d, SelectSeq(Positions(Len(d)), Sel))

(* Mutant: the replay takes every row of the card, the rows after the      *)
(* index included.                                                          *)
card_transactions_WholeCard(d, current_idx) ==
    LET current_card == d[current_idx].card_number_var
        Sel(i) == d[i].card_number_var = current_card
    IN  SortByTime(d, SelectSeq(Positions(Len(d)), Sel))

card_transactions(d, current_idx) ==
    LET current_card == d[current_idx].card_number_var
        Sel(i) == d[i].card_number_var = current_card /\ i <= current_idx
    IN  SortByTime(d, SelectSeq(Positions(Len(d)), Sel))

MAX_TRIP_HOURS == 4

TrxEntry(d, i) ==
    [idx |-> i, type |-> d[i].trx, time |-> d[i].trx_on,
     terminal |-> d[i].terminal_name_var,
     is_payment |-> is_payment_transaction(d[i])]

NewTrip(d, i, trips) ==
    [trip_id |-> Len(trips) + 1,
     start_idx |-> i,
     start_time |-> d[i].trx_on,
     start_type |-> IF "GATE" \in d[i].trx THEN "GATE_IN" ELSE "TOB_IN",
     start_terminal |-> d[i].terminal_name_var,
     transactions |-> <<>>,
     payments_count |-> 0,
     is_paid |-> FALSE,
     is_completed |-> FALSE,
     end_time |-> <<>>,
     end_type |-> "None",
     end_terminal |-> <<>>]

(* Mutant: every appended member counts as a payment.                       *)
AddMember_CountsEveryMember(d, i, trip) ==
    LET t1 == [trip EXCEPT !.transactions = Append(@, TrxEntry(d, i))]
    IN  [t1 EXCEPT !.payments_count = @ + 1, !.is_paid = TRUE]

AddMember(d, i, trip) ==
    LET t1 == [trip EXCEPT !.transactions = Append(@, TrxEntry(d, i))]
    IN  IF is_payment_transaction(d[i])
        THEN [t1 EXCEPT !.payments_count = @ + 1, !.is_paid = TRUE]
        ELSE t1

(* Mutant: an IN tap arriving while a trip is open joins that trip instead  *)
(* of closing it and starting a new one.                                    *)
ReplayStep_InJoinsOpenTrip(d, st, i) ==
    LET trx_type == d[i].trx IN
    IF IsIn(trx_type)
    THEN IF st.current_trip # <<>> /\ ~st.current_trip[1].is_completed
         THEN [st EXCEPT !.current_trip = <<AddMember(d, i, st.current_trip[1])>>]
         ELSE [st EXCEPT !.current_trip =
                             <<AddMember(d, i, NewTrip(d, i, st.trips))>>]
    ELSE IF IsUnblokir(trx_type)
    THEN st
    ELSE IF st.current_trip # <<>> /\ IsOut(trx_type)
    THEN LET t1 == AddMember(d, i, st.current_trip[1])
             t2 == [t1 EXCEPT !.is_completed = TRUE,
                              !.end_time = <<d[i].trx_on>>,
                              !.end_type = IF "GATE" \in trx_type
                                           THEN "GATE_OUT" ELSE "TOB_OUT",
                              !.end_terminal = <<d[i].terminal_name_var>>]
         IN  [trips |-> Append(st.trips, t2), current_trip |-> <<>>]
    ELSE st

(* Mutant: an IN tap arriving while a trip is open appends that trip to the *)
(* result without marking it completed.                                     *)
ReplayStep_InAppendsOpenTrip(d, st, i) ==
    LET trx_type == d[i].trx IN
    IF IsIn(trx_type)
    THEN LET closed == IF st.current_trip # <<>>
                          /\ ~st.current_trip[1].is_completed
                       THEN Append(st.trips, st.current_trip[1])
                       ELSE st.trips
         IN  [trips |-> closed,
              current_trip |-> <<AddMember(d, i, NewTrip(d, i, closed))>>]
    ELSE IF IsUnblokir(trx_type)
    THEN st
    ELSE IF st.current_trip # <<>> /\ IsOut(trx_type)
    THEN LET t1 == AddMember(d, i, st.current_trip[1])
             t2 == [t1 EXCEPT !.is_completed = TRUE,
                              !.end_time = <<d[i].trx_on>>,
                              !.end_type = IF "GATE" \in trx_type
                                           THEN "GATE_OUT" ELSE "TOB_OUT",
                              !.end_terminal = <<d[i].terminal_name_var>>]
         IN  [trips |-> Append(st.trips, t2), current_trip |-> <<>>]
    ELSE st

(* Mutant: an UNBLOKIR row met with a trip open closes that trip.           *)
ReplayStep_UnblokirClosesTrip(d, st, i) ==
    LET trx_type == d[i].trx IN
    IF IsIn(trx_type)
    THEN LET closed == IF st.current_trip # <<>>
                          /\ ~st.current_trip[1].is_completed
                       THEN Append(st.trips,
                                [st.current_trip[1] EXCEPT !.is_completed = TRUE])
                       ELSE st.trips
         IN  [trips |-> closed,
              current_trip |-> <<AddMember(d, i, NewTrip(d, i, closed))>>]
    ELSE IF IsUnblokir(trx_type)
    THEN IF st.current_trip # <<>>
         THEN [trips |-> Append(st.trips,
                             [st.current_trip[1] EXCEPT !.is_completed = TRUE]),
               current_trip |-> <<>>]
         ELSE st
    ELSE IF st.current_trip # <<>> /\ IsOut(trx_type)
    THEN LET t1 == AddMember(d, i, st.current_trip[1])
             t2 == [t1 EXCEPT !.is_completed = TRUE,
                              !.end_time = <<d[i].trx_on>>,
                              !.end_type = IF "GATE" \in trx_type
                                           THEN "GATE_OUT" ELSE "TOB_OUT",
                              !.end_terminal = <<d[i].terminal_name_var>>]
         IN  [trips |-> Append(st.trips, t2), current_trip |-> <<>>]
    ELSE st

(* Mutant: an OUT tap closes the open trip only when the trip was opened on *)
(* the same channel; an OUT of the other channel is dropped.                *)
ReplayStep_SameChannelOnly(d, st, i) ==
    LET trx_type == d[i].trx IN
    IF IsIn(trx_type)
    THEN LET closed == IF st.current_trip # <<>>
                          /\ ~st.current_trip[1].is_completed
                       THEN Append(st.trips,
                                [st.current_trip[1] EXCEPT !.is_completed = TRUE])
                       ELSE st.trips
         IN  [trips |-> closed,
              current_trip |-> <<AddMember(d, i, NewTrip(d, i, closed))>>]
    ELSE IF IsUnblokir(trx_type)
    THEN st
    ELSE IF /\ st.current_trip # <<>>
            /\ IsOut(trx_type)
            /\ ("GATE" \in trx_type) = (st.current_trip[1].start_type = "GATE_IN")
    THEN LET t1 == AddMember(d, i, st.current_trip[1])
             t2 == [t1 EXCEPT !.is_completed = TRUE,
                              !.end_time = <<d[i].trx_on>>,
                              !.end_type = IF "GATE" \in trx_type
                                           THEN "GATE_OUT" ELSE "TOB_OUT",
                              !.end_terminal = <<d[i].terminal_name_var>>]
         IN  [trips |-> Append(st.trips, t2), current_trip |-> <<>>]
    ELSE st

(* Mutant: an OUT tap met with no trip open joins the last closed trip.     *)
ReplayStep_OrphanOutJoinsLastTrip(d, st, i) ==
    LET trx_type == d[i].trx IN
    IF IsIn(trx_type)
    THEN LET closed == IF st.current_trip # <<>>
                          /\ ~st.current_trip[1].is_completed
                       THEN Append(st.trips,
                                [st.current_trip[1] EXCEPT !.is_completed = TRUE])
                       ELSE st.trips
         IN  [trips |-> closed,
              current_trip |-> <<AddMember(d, i, NewTrip(d, i, closed))>>]
    ELSE IF IsUnblokir(trx_type)
    THEN st
    ELSE IF st.current_trip # <<>> /\ IsOut(trx_type)
    THEN LET t1 == AddMember(d, i, st.current_trip[1])
             t2 == [t1 EXCEPT !.is_completed = TRUE,
                              !.end_time = <<d[i].trx_on>>,
                              !.end_type = IF "GATE" \in trx_type
                                           THEN "GATE_OUT" ELSE "TOB_OUT",
                              !.end_terminal = <<d[i].terminal_name_var>>]
         IN  [trips |-> Append(st.trips, t2), current_trip |-> <<>>]
    ELSE IF st.trips # <<>> /\ IsOut(trx_type)
    THEN [st EXCEPT !.trips[Len(st.trips)] = AddMember(d, i, @)]
    ELSE st

(* One iteration of the replay loop of get_trips_for_card.  st.trips is the *)
(* result list, st.current_trip the open trip (None or <<trip>>).           *)
ReplayStep(d, st, i) ==
    LET trx_type == d[i].trx IN
    IF IsIn(trx_type)
    THEN LET closed == IF st.current_trip # <<>>
                          /\ ~st.current_trip[1].is_completed
                       THEN Append(st.trips,
                                [st.current_trip[1] EXCEPT !.is_completed = TRUE])
                       ELSE st.trips
         IN  [trips |-> closed,
              current_trip |-> <<AddMember(d, i, NewTrip(d, i, closed))>>]
    ELSE IF IsUnblokir(trx_type)
    THEN st
    ELSE IF st.current_trip # <<>> /\ IsOut(trx_type)
    THEN LET t1 == AddMember(d, i, st.current_trip[1])
             t2 == [t1 EXCEPT !.is_completed = TRUE,
                              !.end_time = <<d[i].trx_on>>,
                              !.end_type = IF "GATE" \in trx_type
                                           THEN "GATE_OUT" ELSE "TOB_OUT",
                              !.end_terminal = <<d[i].terminal_name_var>>]
         IN  [trips |-> Append(st.trips, t2), current_trip |-> <<>>]
    ELSE st

RECURSIVE Replay(_, _)
Replay(d, s) ==
    IF s = <<>> THEN [trips |-> <<>>, current_trip |-> <<>>]
    ELSE ReplayStep(d, Replay(d, SubSeq(s, 1, Len(s) - 1)), s[Len(s)])

(* Mutant: the open trip is auto-completed from 4 hours on.                 *)
CloseLastTrip_FromFourHours(st, current_time) ==
    IF st.current_trip # <<>>
    THEN IF ~st.current_trip[1].is_completed
            /\ current_time - st.current_trip[1].start_time
                   >= Hours(MAX_TRIP_HOURS)
         THEN Append(st.trips, [st.current_trip[1] EXCEPT !.is_completed = TRUE])
         ELSE Append(st.trips, st.current_trip[1])
    ELSE st.trips

(* Lines 389-400: the trip still open after the replay is auto-completed    *)
(* when more than MAX_TRIP_HOURS have passed, and appended in any case.     *)
CloseLastTrip(st, current_time) ==
    IF st.current_trip # <<>>
    THEN IF ~st.current_trip[1].is_completed
            /\ current_time - st.current_trip[1].start_time
                   > Hours(MAX_TRIP_HOURS)
         THEN Append(st.trips, [st.current_trip[1] EXCEPT !.is_completed = TRUE])
         ELSE Append(st.trips, st.current_trip[1])
    ELSE st.trips

get_trips_for_card(d, current_idx) ==
    CloseLastTrip(Replay(d, card_transactions(d, current_idx)),
                  d[current_idx].trx_on)

-----------------------------------------------------------------------------
(* detect_in_in_case: two IN taps in a row, newest first, before the row.   *)

(* sort_values(by="trx_on", ascending=False): descending by time, rows with *)
(* equal time keep their table order.                                       *)
RECURSIVE InsertByTimeDesc(_, _, _)
InsertByTimeDesc(d, sorted, i) ==
    IF sorted = <<>> THEN <<i>>
    ELSE IF d[sorted[Len(sorted)]].trx_on >= d[i].trx_on
         THEN Append(sorted, i)
         ELSE Append(InsertByTimeDesc(d, SubSeq(sorted, 1, Len(sorted) - 1), i),
                     sorted[Len(sorted)])

RECURSIVE SortByTimeDesc(_, _)
SortByTimeDesc(d, s) ==
    IF s = <<>> THEN <<>>
    ELSE InsertByTimeDesc(d, SortByTimeDesc(d, SubSeq(s, 1, Len(s) - 1)),
                          s[Len(s)])

previous_transactions(d, current_idx) ==
    LET current_card == d[current_idx].card_number_var
        current_time == d[current_idx].trx_on
        Sel(i) == /\ d[i].card_number_var = current_card
                  /\ d[i].trx_on < current_time
                  /\ i < current_idx
    IN  SortByTimeDesc(d, SelectSeq(Positions(Len(d)), Sel))

(* The scan loop: sc.in_count / sc.last_in_idx are the loop variables,      *)
(* sc.found is the returned dict (None while nothing was returned).         *)
InInScanStep(d, sc, i) ==
    IF sc.found # <<>> THEN sc
    ELSE IF IsIn(d[i].trx)
    THEN IF sc.in_count + 1 = 1
         THEN [sc EXCEPT !.in_count = 1, !.last_in_idx = <<i>>]
         ELSE IF sc.in_count + 1 = 2
         THEN [sc EXCEPT !.in_count = 2,
                         !.found = <<[is_in_in_case |-> TRUE,
                                      first_in_idx |-> i,
                                      second_in_idx |-> sc.last_in_idx[1],
                                      first_in_time |-> d[i].trx_on,
                                      second_in_time |->
                                          d[sc.last_in_idx[1]].trx_on]>>]
         ELSE [sc EXCEPT !.in_count = @ + 1]
    ELSE IF "[OUT]" \in d[i].trx \/ "UNBLOKIR" \in d[i].trx
    THEN [sc EXCEPT !.in_count = 0, !.last_in_idx = <<>>]
    ELSE sc

RECURSIVE InInScan(_, _)
InInScan(d, s) ==
    IF s = <<>> THEN [in_count |-> 0, last_in_idx |-> <<>>, found |-> <<>>]
    ELSE InInScanStep(d, InInScan(d, SubSeq(s, 1, Len(s) - 1)), s[Len(s)])

InInResult(d, prev) == IF Len(prev) < 2 THEN <<>> ELSE InInScan(d, prev).found

detect_in_in_case(d, current_idx) ==
    InInResult(d, previous_transactions(d, current_idx))

-----------------------------------------------------------------------------
(* find_last_unpaid_trip.  Its body stands at lines 479-511, but the        *)
(* "def find_last_unpaid_trip(df, current_idx):" header is absent: the      *)
(* docstring and the body continue detect_in_in_case after its last return, *)
(* so the module never binds the name.                                      *)

(* Mutant: the def header of find_last_unpaid_trip is in place.             *)
find_last_unpaid_trip_is_defined_HeaderInPlace == TRUE

find_last_unpaid_trip_is_defined == FALSE

UnpaidTripHours == 1

IsUnpaid(trip, current_time) ==
    LET time_diff == current_time - trip.start_time
        has_completion_payment ==
            \E k \in 1..Len(trip.transactions) :
                /\ trip.transactions[k].is_payment
                /\ \/ "[OUT]" \in trip.transactions[k].type
                   \/ "UNBLOKIR" \in trip.transactions[k].type
    IN  \/ trip.payments_count = 0
        \/ ~trip.is_completed /\ time_diff > Hours(UnpaidTripHours)
        \/ trip.is_completed /\ ~has_completion_payment
           /\ trip.payments_count > 0

RECURSIVE LastUnpaid(_, _, _, _)
LastUnpaid(trips, n, current_idx, current_time) ==
    IF n = 0 THEN <<>>
    ELSE LET trip == trips[n]
             contains_current ==
                 \E k \in 1..Len(trip.transactions) :
                     trip.transactions[k].idx = current_idx
         IN  IF ~contains_current /\ IsUnpaid(trip, current_time)
             THEN <<trip>>
             ELSE LastUnpaid(trips, n - 1, current_idx, current_time)

find_last_unpaid_trip(d, current_idx) ==
    LET trips == get_trips_for_card(d, current_idx)
    IN  LastUnpaid(trips, Len(trips), current_idx, d[current_idx].trx_on)

-----------------------------------------------------------------------------
(* is_double_deduct.  A verdict is the returned tuple                       *)
(* (is_dd, refund_amount, detected_step, is_integration); detected_step is  *)
(* <<text, n>>, the fixed part of the message and the number it embeds.     *)

Verdict(dd, refund, step, integ) ==
    [is_dd |-> dd, refund_amount |-> refund, detected_step |-> step,
     is_integration |-> integ]

ConcurrentGapMinutes == 5

(* Rows selected by the two concurrency filters, in table order.            *)
next_in(d, idx) ==
    LET Sel(i) == /\ d[i].card_number_var = d[idx].card_number_var
                  /\ d[i].trx_on > d[idx].trx_on
                  /\ d[i].trx_on <= d[idx].trx_on + Minutes(ConcurrentGapMinutes)
                  /\ "[IN]" \in d[i].trx
    IN  SelectSeq(Positions(Len(d)), Sel)

concurrent_in(d, idx) ==
    LET Sel(i) == /\ d[i].card_number_var = d[idx].card_number_var
                  /\ d[i].trx_on = d[idx].trx_on
                  /\ i > idx
                  /\ "[IN]" \in d[i].trx
    IN  SelectSeq(Positions(Len(d)), Sel)

(* <<>> when not concurrent, else <<reason>>.                               *)
concurrent_with_next_in(d, idx) ==
    LET current_terminal == d[idx].terminal_name_var
        c == concurrent_in(d, idx)
        n == next_in(d, idx)
    IN  IF c # <<>>
        THEN IF is_same_terminal_group(current_terminal,
                                       d[c[1]].terminal_name_var)
             THEN <<<<"DD: UNBLOKIR bersamaan PERSIS dengan IN di terminal sama", 0>>>>
             ELSE <<>>
        ELSE IF n # <<>>
        THEN IF is_same_terminal_group(current_terminal,
                                       d[n[1]].terminal_name_var)
             THEN <<<<"DD: UNBLOKIR bersamaan dengan IN di terminal sama",
                      RoundSeconds(d[n[1]].trx_on - d[idx].trx_on)>>>>
             ELSE <<>>
        ELSE <<>>

(* Lines 604-633: the decision table over the four computed facts.          *)
UnblokirDecision(is_deduction, unpaid_trip, in_in_case, conc, fare_amount, integ) ==
    IF is_deduction
    THEN IF conc # <<>>
         THEN Verdict(TRUE, fare_amount, conc[1], integ)
         ELSE IF in_in_case # <<>> /\ in_in_case[1].is_in_in_case
         THEN Verdict(TRUE, fare_amount,
                      <<"DD: UNBLOKIR dalam IN-IN case",
                        in_in_case[1].first_in_idx>>, integ)
         ELSE IF unpaid_trip # <<>>
         THEN IF is_subsidi_time(unpaid_trip[1].start_time)
                 /\ fare_amount = SubsidiFare
              THEN Verdict(TRUE, SubsidiRefund,
                           <<"DD Subsidi: UNBLOKIR bayar trip subsidi",
                             unpaid_trip[1].start_idx>>, integ)
              ELSE Verdict(FALSE, 0,
                           <<"Sah: UNBLOKIR bayar trip",
                             unpaid_trip[1].start_idx>>, integ)
         ELSE Verdict(TRUE, fare_amount,
                      <<"DD: UNBLOKIR tanpa trip yang perlu dibayar", 0>>, integ)
    ELSE IF in_in_case # <<>> /\ in_in_case[1].is_in_in_case
         THEN Verdict(FALSE, 0,
                      <<"Sah: UNBLOKIR refund koreksi IN-IN case",
                        in_in_case[1].first_in_idx>>, integ)
         ELSE IF unpaid_trip # <<>>
         THEN IF is_subsidi_time(unpaid_trip[1].start_time)
                 /\ fare_amount = SubsidiFare
              THEN Verdict(TRUE, SubsidiRefund,
                           <<"DD Subsidi: UNBLOKIR bayar trip subsidi",
                             unpaid_trip[1].start_idx>>, integ)
              ELSE Verdict(FALSE, 0,
                           <<"Sah: UNBLOKIR refund untuk trip",
                             unpaid_trip[1].start_idx>>, integ)
         ELSE IF conc # <<>>
         THEN Verdict(TRUE, fare_amount, conc[1], integ)
         ELSE Verdict(TRUE, fare_amount,
                      <<"DD: UNBLOKIR refund tanpa justifikasi", 0>>, integ)

(* A raised exception, carried by its message str(e).                       *)
Raise(message) == [raised |-> TRUE, message |-> message]

Raised(r) == "raised" \in DOMAIN r

(* The NameError of the call at line 558.                                   *)
NameError == Raise("name 'find_last_unpaid_trip' is not defined")

(* The TypeError of abs() at line 539 for a fare that is a string.          *)
TypeError == Raise("bad operand type for abs(): 'str'")

(* Lines 664-665, the except clause of is_double_deduct: the verdict for an *)
(* exception e, with detected_step f"Error: {str(e)}".                      *)
ErrorVerdict(e) == Verdict(FALSE, 0, <<"Error: ", e.message>>, FALSE)

(* Line 539: the absolute fare of an UNBLOKIR row.                          *)
UnblokirFare(row) == IF ~isnull(row, "fare_int") THEN abs(row.fare_int) ELSE 0

(* Lines 536-633.  The call at line 558 raises NameError.                   *)
UnblokirVerdict(d, idx) ==
    IF ~isnull(d[idx], "fare_int")
       /\ (isempty(d[idx], "fare_int") \/ istext(d[idx], "fare_int"))
    THEN TypeError
    ELSE IF ~find_last_unpaid_trip_is_defined
    THEN NameError
    ELSE UnblokirDecision(truthy(d[idx], "deduct_boo", d[idx].deduct_boo),
                          find_last_unpaid_trip(d, idx),
                          detect_in_in_case(d, idx),
                          concurrent_with_next_in(d, idx),
                          UnblokirFare(d[idx]),
                          is_integration_fare(UnblokirFare(d[idx])))

(* Lines 641-650: 1-based rank of the row among the payment-flagged members *)
(* of the first trip that contains it; 0 when no trip contains it.          *)
RECURSIVE PaymentsUpTo(_, _)
PaymentsUpTo(transactions, i) ==
    IF i = 0 THEN 0
    ELSE PaymentsUpTo(transactions, i - 1)
         + (IF transactions[i].is_payment THEN 1 ELSE 0)

TripContaining(trips, idx) ==
    LET hits == {n \in 1..Len(trips) :
                    \E k \in 1..Len(trips[n].transactions) :
                        trips[n].transactions[k].idx = idx}
    IN  IF hits = {} THEN <<>>
        ELSE <<trips[CHOOSE n \in hits : \A m \in hits : n <= m]>>

(* Mutant: only the payments before the row are counted ([:i], not [:i+1]). *)
payment_order_in_trip_Exclusive(trip, idx) ==
    LET ks == {k \in 1..Len(trip.transactions) : trip.transactions[k].idx = idx}
        i == CHOOSE k \in ks : \A m \in ks : k <= m
    IN  PaymentsUpTo(trip.transactions, i - 1)

payment_order_in_trip(trip, idx) ==
    LET ks == {k \in 1..Len(trip.transactions) : trip.transactions[k].idx = idx}
        i == CHOOSE k \in ks : \A m \in ks : k <= m
    IN  PaymentsUpTo(trip.transactions, i)

(* Lines 641-650 over the whole trip list: 0 when no trip contains the row. *)
OrderInTrips(trips, idx) ==
    IF TripContaining(trips, idx) = <<>> THEN 0
    ELSE payment_order_in_trip(TripContaining(trips, idx)[1], idx)

(* Mutant: the subsidy rule is tried before the duplicate-payment rule.     *)
PaymentRule_SubsidiFirst(row, order) ==
    IF is_subsidi_time(row.trx_on) /\ row.fare_int = SubsidiFare
    THEN Verdict(TRUE, SubsidiRefund,
                 <<"DD Subsidi: Jam 05:00-07:00 seharusnya tarif 2000", 0>>,
                 is_integration_fare(row.fare_int))
    ELSE IF order > 1
    THEN Verdict(TRUE, row.fare_int, <<"DD: Payment ke-", order>>,
                 is_integration_fare(row.fare_int))
    ELSE Verdict(FALSE, 0, <<"Sah: Payment normal", 0>>,
                 is_integration_fare(row.fare_int))

(* Mutant: a normal payment is returned with its fare as refund.            *)
PaymentRule_RefundOnNormal(row, order) ==
    IF order > 1
    THEN Verdict(TRUE, row.fare_int, <<"DD: Payment ke-", order>>,
                 is_integration_fare(row.fare_int))
    ELSE IF is_subsidi_time(row.trx_on) /\ row.fare_int = SubsidiFare
    THEN Verdict(TRUE, SubsidiRefund,
                 <<"DD Subsidi: Jam 05:00-07:00 seharusnya tarif 2000", 0>>,
                 is_integration_fare(row.fare_int))
    ELSE Verdict(FALSE, row.fare_int, <<"Sah: Payment normal", 0>>,
                 is_integration_fare(row.fare_int))

(* Lines 652-662: the rules for a paying IN/OUT tap whose rank among the    *)
(* payments of its trip is order (0 when it is in no trip).                 *)
PaymentRule(row, order) ==
    IF order > 1
    THEN Verdict(TRUE, row.fare_int, <<"DD: Payment ke-", order>>,
                 is_integration_fare(row.fare_int))
    ELSE IF is_subsidi_time(row.trx_on) /\ row.fare_int = SubsidiFare
    THEN Verdict(TRUE, SubsidiRefund,
                 <<"DD Subsidi: Jam 05:00-07:00 seharusnya tarif 2000", 0>>,
                 is_integration_fare(row.fare_int))
    ELSE Verdict(FALSE, 0, <<"Sah: Payment normal", 0>>,
                 is_integration_fare(row.fare_int))

(* Lines 635-662: IN/OUT taps that are payments.                            *)
PaymentVerdict(d, idx) ==
    PaymentRule(d[idx], OrderInTrips(get_trips_for_card(d, idx), idx))

(* Lines 532-662, the try block of is_double_deduct: a verdict, or the      *)
(* exception raised on the way.                                             *)
is_double_deduct_try(d, idx) ==
    IF "UNBLOKIR" \in d[idx].trx
    THEN UnblokirVerdict(d, idx)
    ELSE IF ~is_payment_transaction(d[idx])
         THEN Verdict(FALSE, 0, <<"Bukan transaksi pembayaran", 0>>, FALSE)
         ELSE PaymentVerdict(d, idx)

(* try ... except Exception as e of lines 532 and 664.                      *)
ExceptClause(r) == IF Raised(r) THEN ErrorVerdict(r) ELSE r

(* Mutant: the payment test of line 543 is skipped.                         *)
is_double_deduct_NoPaymentTest(d, idx) ==
    ExceptClause(IF "UNBLOKIR" \in d[idx].trx
                 THEN UnblokirVerdict(d, idx)
                 ELSE PaymentVerdict(d, idx))

is_double_deduct(d, idx) == ExceptClause(is_double_deduct_try(d, idx))

-----------------------------------------------------------------------------
(* analyze_all_transactions: the batch driver.                              *)

Row(card, t, kind, terminal, m) ==
    [card_number_var |-> card, trx_on |-> t, trx |-> kind,
     terminal_name_var |-> terminal, fare_int |-> m.fare_int,
     balance_before_int |-> m.balance_before_int,
     balance_int |-> m.balance_int, deduct_boo |-> m.deduct_boo,
     nulls |-> {}, empty |-> {}, text |-> {}]

Money(fare, before, after, deduct) ==
    [fare_int |-> fare, balance_before_int |-> before, balance_int |-> after,
     deduct_boo |-> deduct]

GATE_IN == {"GATE", "[IN]"}

TOB_IN == {"TOB", "[IN]"}

GATE_OUT == {"GATE", "[OUT]"}

TOB_OUT == {"TOB", "[OUT]"}

UNBLOKIR == {"UNBLOKIR"}

(* load_and_prepare_data sorts the table by (card_number_var, trx_on).      *)
SortedByCardAndTime(d) ==
    \A i \in 1..(Len(d) - 1) :
        \/ d[i].card_number_var < d[i + 1].card_number_var
        \/ /\ d[i].card_number_var = d[i + 1].card_number_var
           /\ d[i].trx_on <= d[i + 1].trx_on

(* All loaded tables of 1..n rows over a row domain (the loader rejects an  *)
(* empty table).                                                            *)
Tables(rows, n) ==
    UNION {{d \in [1..k -> rows] : SortedByCardAndTime(d)} : k \in 1..n}

(* The DataFrame that is_double_deduct is handed inside the loop: the       *)
(* loaded rows together with the four verdict columns as written so far.    *)
Frame(d, a, b, c, e) ==
    [i \in 1..Len(d) |->
        [card_number_var |-> d[i].card_number_var, trx_on |-> d[i].trx_on,
         trx |-> d[i].trx, terminal_name_var |-> d[i].terminal_name_var,
         fare_int |-> d[i].fare_int,
         balance_before_int |-> d[i].balance_before_int,
         balance_int |-> d[i].balance_int, deduct_boo |-> d[i].deduct_boo,
         nulls |-> d[i].nulls, empty |-> d[i].empty, text |-> d[i].text,
         is_dd |-> a[i], dd_refund |-> b[i], dd_step |-> c[i],
         is_integration |-> e[i]]]

(* All tables of 1..n rows that a caller can hand analyze_all_transactions  *)
(* directly, in any row order.                                              *)
AnyTables(rows, n) == UNION {[1..k -> rows] : k \in 1..n}

(* Lines 684-687: the verdict columns before the loop.                      *)
InitColumns ==
    /\ pc = "loop"
    /\ pos = 1
    /\ is_dd = [i \in 1..Len(df) |-> FALSE]
    /\ dd_refund = [i \in 1..Len(df) |-> 0]
    /\ dd_step = [i \in 1..Len(df) |-> <<"", 0>>]
    /\ is_integration = [i \in 1..Len(df) |-> FALSE]
    /\ call = <<>>

(* Lines 697-722: the values written for the result r of the call, the     *)
(* returned tuple or, in the except clause of the loop, the defaults.       *)
RowVerdict(r) ==
    IF Raised(r) THEN Verdict(FALSE, 0, <<"Error: ", r.message>>, FALSE) ELSE r

(* Lines 700-703 and 719-722: the four df.at assignments.                   *)
WriteVerdict(v) ==
    /\ is_dd' = [is_dd EXCEPT ![pos] = v.is_dd]
    /\ dd_refund' = [dd_refund EXCEPT ![pos] = v.refund_amount]
    /\ dd_step' = [dd_step EXCEPT ![pos] = v.detected_step]
    /\ is_integration' = [is_integration EXCEPT ![pos] = v.is_integration]

(* Mutant: an exception raised while classifying a row is caught nowhere    *)
(* and ends the batch at that row.                                          *)
AnalyzeRow_AbortsOnError ==
    /\ pc = "loop"
    /\ pos <= Len(df)
    /\ IF Raised(is_double_deduct_try(df, pos))
       THEN /\ pc' = "done"
            /\ UNCHANGED <<df, pos, is_dd, dd_refund, dd_step, is_integration,
                           call>>
       ELSE /\ WriteVerdict(RowVerdict(is_double_deduct(df, pos)))
            /\ pos' = pos + 1
            /\ UNCHANGED <<df, pc, call>>

(* Lines 696-722: one iteration of the loop over df.index.                  *)
AnalyzeRow ==
    /\ pc = "loop"
    /\ pos <= Len(df)
    /\ WriteVerdict(RowVerdict(is_double_deduct(
           Frame(df, is_dd, dd_refund, dd_step, is_integration), pos)))
    /\ pos' = pos + 1
    /\ UNCHANGED <<df, pc, call>>

(* Line 734: the loop is exhausted and the table is returned.               *)
Return ==
    /\ pc = "loop"
    /\ pos > Len(df)
    /\ pc' = "done"
    /\ UNCHANGED <<df, pos, is_dd, dd_refund, dd_step, is_integration, call>>

Next == AnalyzeRow \/ Return

-----------------------------------------------------------------------------
(* Specification Spec: one card tapping IN and OUT around the subsidy       *)
(* window, with paying and non-paying taps.                                 *)

MaxRows == 3

TerminalA == <<"GATE", "1", "A">>

(* A tap is a kind with the money columns of the row.                       *)
Tap(kind, m) == [trx |-> kind, money |-> m]

TapRow(card, t, terminal, tap) == Row(card, t, tap.trx, terminal, tap.money)

Pay3500 == Money(3500, 10000, 6500, TRUE)

Pay5000 == Money(5000, 10000, 5000, TRUE)

Pay2000 == Money(2000, 10000, 8000, TRUE)

NoDeduct3500 == Money(3500, 10000, 6500, FALSE)

ZeroFare == Money(0, 10000, 10000, TRUE)

TOPUP == {"TOPUP"}

PayTimes == {HMS(5, 30, 0), HMS(7, 0, 0), HMS(14, 0, 0)}

PayTaps ==
    {Tap(GATE_IN, Pay3500), Tap(TOB_IN, Pay5000), Tap(GATE_IN, NoDeduct3500),
     Tap(GATE_OUT, Pay3500), Tap(GATE_OUT, NoDeduct3500), Tap(TOB_OUT, Pay5000),
     Tap(UNBLOKIR, Pay3500), Tap(TOPUP, ZeroFare)}

PayRows == {TapRow(1, t, TerminalA, tap) : t \in PayTimes, tap \in PayTaps}

Init ==
    /\ df \in Tables(PayRows, MaxRows)
    /\ InitColumns

Spec == Init /\ [][Next]_vars

(* Specification SpecB: two taps of one card between 07:00 and 12:00, the   *)
(* balances of the 08:00 / 08:10 double entry.                              *)

PayTo3000 == Money(3500, 6500, 3000, TRUE)

PayToNegative == Money(3500, 3000, -500, TRUE)

BTimes == {HMS(7, 0, 0), HMS(8, 0, 0), HMS(8, 10, 0), HMS(12, 0, 0)}

BTaps ==
    {Tap(GATE_IN, PayTo3000), Tap(TOB_IN, PayToNegative),
     Tap(TOB_IN, NoDeduct3500), Tap(GATE_OUT, PayTo3000),
     Tap(UNBLOKIR, Pay3500)}

BRows == {TapRow(1, t, TerminalA, tap) : t \in BTimes, tap \in BTaps}

InitB ==
    /\ df \in Tables(BRows, MaxRows)
    /\ InitColumns

SpecB == InitB /\ [][Next]_vars

(* Specification SpecSubsidi: taps at the edges of the subsidy window       *)
(* (07:00:00.5 among them) with fares 2000 and 3500.                        *)

SubsidiTimes ==
    {HMS(4, 59, 59), HMS(5, 0, 0), HMS(6, 59, 59), HMS(7, 0, 0),
     HMS(7, 0, 0) + 1, HMS(7, 0, 1)}

SubsidiTaps ==
    {Tap(GATE_IN, Pay3500), Tap(GATE_IN, Pay2000), Tap(GATE_OUT, Pay3500),
     Tap(UNBLOKIR, Pay3500)}

SubsidiRows ==
    {TapRow(1, t, TerminalA, tap) : t \in SubsidiTimes, tap \in SubsidiTaps}

InitSubsidi ==
    /\ df \in Tables(SubsidiRows, MaxRows)
    /\ InitColumns

SpecSubsidi == InitSubsidi /\ [][Next]_vars

(* Specification SpecU: UNBLOKIR corrections of one card next to IN and OUT *)
(* taps at two stations, seconds and minutes apart.                         *)

TerminalTobA == <<"TOB", "HALTE", "A">>

TerminalB == <<"GATE", "2", "B">>

Refund3500 == Money(-3500, 6500, 10000, FALSE)

UTimes == {HMS(9, 0, 5), HMS(9, 0, 10), HMS(9, 5, 5), HMS(9, 5, 6)}

UTaps ==
    {[tap |-> Tap(GATE_IN, Pay3500), terminal |-> TerminalA],
     [tap |-> Tap(TOB_IN, NoDeduct3500), terminal |-> TerminalTobA],
     [tap |-> Tap(GATE_IN, Pay3500), terminal |-> TerminalB],
     [tap |-> Tap(GATE_OUT, Pay3500), terminal |-> TerminalA],
     [tap |-> Tap(UNBLOKIR, Pay3500), terminal |-> TerminalA],
     [tap |-> Tap(UNBLOKIR, Refund3500), terminal |-> TerminalA],
     [tap |-> Tap(UNBLOKIR, Pay5000), terminal |-> <<"UNKNOWN">>]}

URows == {TapRow(1, t, u.terminal, u.tap) : t \in UTimes, u \in UTaps}

InitU ==
    /\ df \in Tables(URows, MaxRows)
    /\ InitColumns

SpecU == InitU /\ [][Next]_vars

(* Specification SpecCards: analyze_all_transactions called on tables of    *)
(* two cards in any row order, cards interleaved, times tied or out of      *)
(* order.                                                                   *)

Cards == {1, 2}

CardTimes == {HMS(8, 0, 0), HMS(13, 0, 0)}

CardTaps ==
    {Tap(GATE_IN, Pay3500), Tap(GATE_OUT, Pay5000), Tap(UNBLOKIR, Pay3500)}

CardRows ==
    {TapRow(c, t, TerminalA, tap) : c \in Cards, t \in CardTimes, tap \in CardTaps}

InitCards ==
    /\ df \in AnyTables(CardRows, MaxRows)
    /\ InitColumns

SpecCards == InitCards /\ [][Next]_vars

(* Specification SpecPay: GATE [IN] taps of one card at 08:00 whose money   *)
(* columns stand at the edges of the payment test, with null, empty and     *)
(* non-numeric cells.                                                       *)

OffByOne == Money(3500, 10000, 6501, TRUE)

OffByTwo == Money(3500, 10000, 6502, TRUE)

ZeroFareReduced == Money(0, 10000, 9999, TRUE)

NotReduced == Money(1, 10000, 10000, TRUE)

LastBalance == Money(3500, 3500, 0, TRUE)

PayMoney ==
    {Pay3500, PayToNegative, OffByOne, OffByTwo, NoDeduct3500, ZeroFareReduced,
     NotReduced}

PlainPayRows == {Row(1, HMS(8, 0, 0), GATE_IN, TerminalA, m) : m \in PayMoney}

PayCell(m, nulls, empty, text) ==
    [Row(1, HMS(8, 0, 0), GATE_IN, TerminalA, m)
        EXCEPT !.nulls = nulls, !.empty = empty, !.text = text]

OddPayRows ==
    {PayCell(Pay3500, {"fare_int"}, {}, {}),
     PayCell(Pay3500, {"deduct_boo"}, {}, {}),
     PayCell(Pay3500, {}, {}, {"balance_before_int"}),
     PayCell(LastBalance, {}, {"balance_int"}, {}),
     PayCell(NoDeduct3500, {}, {}, {"deduct_boo"})}

InitPay ==
    /\ df \in Tables(PlainPayRows \cup OddPayRows, MaxRows)
    /\ InitColumns

SpecPay == InitPay /\ [][Next]_vars

(* Specification SpecTerminal: is_same_terminal_group called on two         *)
(* terminal names; call holds the arguments and, once the call returned,    *)
(* the result.  No table is analysed.                                       *)

TerminalNames ==
    {<<>>, <<"UNKNOWN">>, <<"unknown">>, <<" ", "UNKNOWN">>, <<" ">>,
     <<"GATE", "1", "A">>, <<"gate", "1", "a">>, <<"GATE", "2", "A", " ">>,
     <<"TOB", "HALTE", "A">>, <<"TOB", "A">>, <<"HALTE", "A">>, <<"A">>,
     <<"GATE", "2", "B">>, <<"GATE", "A">>, <<"TOB", "HALTE">>}

InitTerminal ==
    /\ df = <<>>
    /\ pc = "call"
    /\ pos = 1
    /\ is_dd = <<>> /\ dd_refund = <<>> /\ dd_step = <<>> /\ is_integration = <<>>
    /\ call \in {<<[terminal1 |-> a, terminal2 |-> b, result |-> <<>>]>> :
                    a \in TerminalNames, b \in TerminalNames}

(* Lines 229-246: the call returns.                                         *)
SameTerminalGroup ==
    /\ pc = "call"
    /\ call' = <<[call[1] EXCEPT !.result =
                      <<is_same_terminal_group(call[1].terminal1,
                                               call[1].terminal2)>>]>>
    /\ pc' = "done"
    /\ UNCHANGED <<df, pos, is_dd, dd_refund, dd_step, is_integration>>

SpecTerminal == InitTerminal /\ [][SameTerminalGroup]_vars

(* Specification SpecTrips: get_trips_for_card called on a loaded table of  *)
(* one card and one of its rows; call holds the index and, once the call    *)
(* returned, the trip list.  The taps stand 4 hours, 4 hours and half a     *)
(* second, and 5 hours after the first.                                     *)

TripTimes == {HMS(8, 0, 0), HMS(12, 0, 0), HMS(12, 0, 0) + 1, HMS(13, 0, 0)}

TripTaps ==
    {Tap(GATE_IN, Pay3500), Tap(TOB_IN, NoDeduct3500), Tap(GATE_OUT, Pay3500),
     Tap(TOB_OUT, NoDeduct3500), Tap(UNBLOKIR, Pay3500), Tap(TOPUP, ZeroFare)}

(* The OUT taps are made at station B, every other tap at station A.        *)
TripRows ==
    {TapRow(1, t, IF IsOut(tap.trx) THEN TerminalB ELSE TerminalA, tap) :
        t \in TripTimes, tap \in TripTaps}

InitTrips ==
    /\ df \in Tables(TripRows, MaxRows)
    /\ call \in {<<[current_idx |-> i, result |-> <<>>]>> : i \in 1..Len(df)}
    /\ pc = "call"
    /\ pos = 1
    /\ is_dd = <<>> /\ dd_refund = <<>> /\ dd_step = <<>> /\ is_integration = <<>>

(* Lines 283-400: the call returns the trip list.                           *)
GetTripsForCard ==
    /\ pc = "call"
    /\ call' = <<[call[1] EXCEPT !.result =
                      <<get_trips_for_card(df, call[1].current_idx)>>]>>
    /\ pc' = "done"
    /\ UNCHANGED <<df, pos, is_dd, dd_refund, dd_step, is_integration>>

SpecTrips == InitTrips /\ [][GetTripsForCard]_vars

(* Specification SpecOrphan: one card with OUT taps and GATE taps that     *)
(* carry no direction marker, before, after and without an IN tap, inside   *)
(* and outside the subsidy window.                                          *)

GATE_ONLY == {"GATE"}

OrphanTimes == {HMS(6, 0, 0), HMS(8, 0, 0), HMS(9, 0, 0)}

OrphanTaps ==
    {Tap(GATE_IN, Pay3500), Tap(GATE_OUT, Pay3500), Tap(TOB_OUT, NoDeduct3500),
     Tap(GATE_ONLY, Pay3500), Tap(UNBLOKIR, Pay3500)}

OrphanRows ==
    {TapRow(1, t, TerminalA, tap) : t \in OrphanTimes, tap \in OrphanTaps}

InitOrphan ==
    /\ df \in Tables(OrphanRows, MaxRows)
    /\ InitColumns

SpecOrphan == InitOrphan /\ [][Next]_vars

(* Specification SpecInIn: detect_in_in_case called on a loaded table of    *)
(* one card and one of its rows, with taps tied in time; call holds the     *)
(* index and, once the call returned, the returned dict or None.            *)

InInTimes == {HMS(9, 0, 0), HMS(9, 0, 5), HMS(9, 5, 5)}

InInTaps ==
    {Tap(GATE_IN, Pay3500), Tap(TOB_IN, NoDeduct3500), Tap(GATE_OUT, Pay3500),
     Tap(UNBLOKIR, Pay3500), Tap(TOPUP, ZeroFare)}

InInRows == {TapRow(1, t, TerminalA, tap) : t \in InInTimes, tap \in InInTaps}

InitInIn ==
    /\ df \in Tables(InInRows, MaxRows)
    /\ call \in {<<[current_idx |-> i, result |-> <<>>]>> : i \in 1..Len(df)}
    /\ pc = "call"
    /\ pos = 1
    /\ is_dd = <<>> /\ dd_refund = <<>> /\ dd_step = <<>> /\ is_integration = <<>>

(* Lines 403-460: the call returns the dict of the IN-IN case or None.      *)
DetectInInCase ==
    /\ pc = "call"
    /\ call' = <<[call[1] EXCEPT !.result =
                      <<detect_in_in_case(df, call[1].current_idx)>>]>>
    /\ pc' = "done"
    /\ UNCHANGED <<df, pos, is_dd, dd_refund, dd_step, is_integration>>

SpecInIn == InitInIn /\ [][DetectInInCase]_vars

(* Specification SpecUnpaid: the name find_last_unpaid_trip called, as line *)
(* 558 calls it, on a loaded table of one card and one of its rows, with    *)
(* taps an hour and an hour and half a second apart; call holds the index   *)
(* and, once the call ended, the returned value or the exception raised.    *)

UnpaidTimes == {HMS(8, 0, 0), HMS(9, 0, 0), HMS(9, 0, 0) + 1}

UnpaidTaps ==
    {Tap(GATE_IN, Pay3500), Tap(TOB_IN, NoDeduct3500), Tap(GATE_OUT, Pay3500),
     Tap(TOB_OUT, NoDeduct3500), Tap(UNBLOKIR, Pay3500)}

UnpaidRows ==
    {TapRow(1, t, TerminalA, tap) : t \in UnpaidTimes, tap \in UnpaidTaps}

(* The call find_last_unpaid_trip(df, idx): the value returned by the body  *)
(* of lines 479-511 when the name is bound, a NameError when it is not.     *)
find_last_unpaid_trip_call(d, idx) ==
    IF find_last_unpaid_trip_is_defined
    THEN [value |-> find_last_unpaid_trip(d, idx)]
    ELSE NameError

InitUnpaid ==
    /\ df \in Tables(UnpaidRows, MaxRows)
    /\ call \in {<<[current_idx |-> i, result |-> <<>>]>> : i \in 1..Len(df)}
    /\ pc = "call"
    /\ pos = 1
    /\ is_dd = <<>> /\ dd_refund = <<>> /\ dd_step = <<>> /\ is_integration = <<>>

(* Line 558: the call ends.                                                 *)
FindLastUnpaidTrip ==
    /\ pc = "call"
    /\ call' = <<[call[1] EXCEPT !.result =
                      <<find_last_unpaid_trip_call(df, call[1].current_idx)>>]>>
    /\ pc' = "done"
    /\ UNCHANGED <<df, pos, is_dd, dd_refund, dd_step, is_integration>>

SpecUnpaid == InitUnpaid /\ [][FindLastUnpaidTrip]_vars

Analysed == 1..(pos - 1)

TypeOK ==
    /\ pc \in {"loop", "done", "call"}
    /\ pos \in 1..(Len(df) + 1)
    /\ \A i \in Analysed : is_dd[i] \in BOOLEAN /\ dd_refund[i] \in Int

-----------------------------------------------------------------------------
(* Properties of the verdicts written by the batch.                         *)

(* Time of day of a timestamp, in ticks since midnight.                     *)
TimeOfDay(t) == t % (DaySeconds * TicksPerSecond)

(* Position of row i among the members of a trip, 0 when it is no member.   *)
MemberPos(trip, i) ==
    IF \E k \in 1..Len(trip.transactions) : trip.transactions[k].idx = i
    THEN CHOOSE k \in 1..Len(trip.transactions) : trip.transactions[k].idx = i
    ELSE 0

(* The ordinal of row i among the paying members of the trip of trips that  *)
(* contains it (counting the row itself), 0 when no trip contains it.       *)
OrdinalIn(d, trips, i) ==
    IF \A n \in 1..Len(trips) : MemberPos(trips[n], i) = 0 THEN 0
    ELSE Cardinality(
           {k \in 1..MemberPos(trips[CHOOSE n \in 1..Len(trips) :
                                         MemberPos(trips[n], i) > 0], i) :
               is_payment_transaction(
                   d[trips[CHOOSE n \in 1..Len(trips) :
                               MemberPos(trips[n], i) > 0].transactions[k].idx])})

PaymentOrdinal(d, i) == OrdinalIn(d, get_trips_for_card(d, i), i)

(* C1: an analysed event whose kind does not contain UNBLOKIR and that is   *)
(* not a payment is not-DD with refund 0, whatever came before it.          *)
C1_NonPaymentNotDD ==
    \A i \in Analysed :
        (~("UNBLOKIR" \in df[i].trx) /\ ~is_payment_transaction(df[i]))
            => (is_dd[i] = FALSE /\ dd_refund[i] = 0)

(* A non-paying tap with fare 3500 inside the subsidy window, after another *)
(* tap of the card, has been analysed.                                      *)
C1_Witness ==
    \E i \in Analysed :
        /\ i > 1
        /\ ~("UNBLOKIR" \in df[i].trx)
        /\ ~is_payment_transaction(df[i])
        /\ df[i].fare_int = 3500
        /\ hour(df[i].trx_on) = 5
        /\ is_dd[i] = FALSE

(* C3: a paying non-UNBLOKIR event that is the k-th paying member (k >= 2)  *)
(* of its trip is DD with refund equal to its fare, also inside the subsidy *)
(* window with fare 3500.                                                   *)
C3_DuplicatePaymentWins ==
    \A i \in Analysed :
        (/\ ~("UNBLOKIR" \in df[i].trx)
         /\ is_payment_transaction(df[i])
         /\ PaymentOrdinal(df, i) >= 2)
            => (/\ is_dd[i] = TRUE
                /\ dd_refund[i] = df[i].fare_int
                /\ dd_step[i][1] = "DD: Payment ke-")

(* A second payment with fare 3500 inside the subsidy window was analysed.  *)
C3_Witness ==
    \E i \in Analysed :
        /\ ~("UNBLOKIR" \in df[i].trx)
        /\ is_payment_transaction(df[i])
        /\ PaymentOrdinal(df, i) = 2
        /\ df[i].fare_int = 3500
        /\ TimeOfDay(df[i].trx_on) = HMS(7, 0, 0)
        /\ dd_refund[i] = 3500

(* Rows i < j are two paying IN taps of one card, the second less than 4    *)
(* hours after the first, with no OUT of the card between them.             *)
DoubleEntry(d, i, j) ==
    /\ i < j
    /\ d[i].card_number_var = d[j].card_number_var
    /\ IsIn(d[i].trx) /\ IsIn(d[j].trx)
    /\ is_payment_transaction(d[i]) /\ is_payment_transaction(d[j])
    /\ d[j].trx_on >= d[i].trx_on
    /\ d[j].trx_on - d[i].trx_on < Hours(4)
    /\ ~\E k \in (i + 1)..(j - 1) :
            /\ d[k].card_number_var = d[i].card_number_var
            /\ "[OUT]" \in d[k].trx

(* The subsidy window: hour 5, hour 6, or exactly 07:00:00.                 *)
InSubsidyWindow(t) ==
    \/ (TimeOfDay(t) >= HMS(5, 0, 0) /\ TimeOfDay(t) < HMS(7, 0, 0))
    \/ TimeOfDay(t) = HMS(7, 0, 0)

(* C2 as stated: the second paying IN tap of a double entry is the second   *)
(* payment of the still-open trip: DD, refund = its fare, 'Payment ke-2'.   *)
C2_SecondInIsSecondPayment ==
    \A i \in Analysed : \A j \in Analysed :
        DoubleEntry(df, i, j)
            => (/\ is_dd[j] = TRUE
                /\ dd_refund[j] = df[j].fare_int
                /\ dd_step[j] = <<"DD: Payment ke-", 2>>)

(* C2 amended: the second paying IN tap of a double entry closes the open   *)
(* trip and starts a new trip in which it is the first payment; it is never *)
(* 'Payment ke-2', and when its hour is not 5, 6 or 7 (as at 08:10) it is   *)
(* not-DD with refund 0, 'Payment normal'.                                  *)
C2_SecondInStartsNewTrip ==
    \A i \in Analysed : \A j \in Analysed :
        DoubleEntry(df, i, j)
            => (/\ dd_step[j][1] # "DD: Payment ke-"
                /\ PaymentOrdinal(df, j) = 1
                /\ (TimeOfDay(df[j].trx_on) \div Hours(1) \notin {5, 6, 7})
                       => (/\ is_dd[j] = FALSE
                           /\ dd_refund[j] = 0
                           /\ dd_step[j][1] = "Sah: Payment normal"))

(* GATE_IN paid 6500 -> 3000 at 08:00, TOB_IN paid 3000 -> -500 at 08:10,   *)
(* both analysed.                                                           *)
C2_Witness ==
    \E i \in Analysed : \E j \in Analysed :
        /\ DoubleEntry(df, i, j)
        /\ j = i + 1
        /\ df[i].trx = GATE_IN /\ df[i].trx_on = HMS(8, 0, 0)
        /\ df[i].balance_int = 3000
        /\ df[j].trx = TOB_IN /\ df[j].trx_on = HMS(8, 10, 0)
        /\ df[j].balance_int = -500
        /\ is_dd[j] = FALSE

(* C4 as stated: a paying non-UNBLOKIR event that is not a second or later  *)
(* payment of its trip is DD with refund 1500 (subsidy mismatch) exactly    *)
(* when its time of day is in hour 5, hour 6 or exactly 07:00:00 and its    *)
(* fare is 3500; otherwise it is not-DD with refund 0.                      *)
C4_SubsidyIffWindowAndFare ==
    \A i \in Analysed :
        (/\ ~("UNBLOKIR" \in df[i].trx)
         /\ is_payment_transaction(df[i])
         /\ PaymentOrdinal(df, i) < 2)
            => IF InSubsidyWindow(df[i].trx_on) /\ df[i].fare_int = 3500
               THEN /\ is_dd[i] = TRUE
                    /\ dd_refund[i] = 1500
                    /\ dd_step[i][1] =
                           "DD Subsidi: Jam 05:00-07:00 seharusnya tarif 2000"
               ELSE /\ is_dd[i] = FALSE
                    /\ dd_refund[i] = 0
                    /\ dd_step[i][1] = "Sah: Payment normal"

SubsidySteps ==
    {"DD Subsidi: Jam 05:00-07:00 seharusnya tarif 2000",
     "DD Subsidi: UNBLOKIR bayar trip subsidi"}

(* C5 as stated: a verdict flagged as subsidy mismatch has refund exactly   *)
(* 1500 and belongs to an event with fare 3500 and time of day in           *)
(* [05:00:00, 07:00:00].                                                    *)
C5_SubsidyRefundExact ==
    \A i \in Analysed :
        dd_step[i][1] \in SubsidySteps
            => (/\ is_dd[i] = TRUE
                /\ dd_refund[i] = 1500
                /\ df[i].fare_int = 3500
                /\ TimeOfDay(df[i].trx_on) >= HMS(5, 0, 0)
                /\ TimeOfDay(df[i].trx_on) <= HMS(7, 0, 0))

(* Row i is a GATE_OUT with fare 3500 at 14:00 that closes a trip whose IN  *)
(* leg paid, and no other trip of the card is unpaid.                       *)
ClosesPaidTripIn(d, trips, i) ==
    /\ d[i].trx = GATE_OUT
    /\ d[i].fare_int = 3500
    /\ TimeOfDay(d[i].trx_on) = HMS(14, 0, 0)
    /\ \E n \in 1..Len(trips) :
          /\ Len(trips[n].transactions) = 2
          /\ trips[n].transactions[2].idx = i
          /\ trips[n].is_completed
          /\ is_payment_transaction(d[trips[n].transactions[1].idx])
    /\ find_last_unpaid_trip(d, i) = <<>>

ClosesPaidTrip(d, i) == ClosesPaidTripIn(d, get_trips_for_card(d, i), i)

(* C10 as stated: such a GATE_OUT is not-DD with refund 0.                  *)
C10_ClosingOutNotDD ==
    \A i \in Analysed :
        ClosesPaidTrip(df, i) => (is_dd[i] = FALSE /\ dd_refund[i] = 0)

(* C10 amended: such a GATE_OUT is not-DD with refund 0 when it is not      *)
(* itself a payment; when it is a payment it is the second payment of the   *)
(* trip and is DD with refund 3500, 'Payment ke-2'.                         *)
C10_ClosingOutByPayment ==
    \A i \in Analysed :
        ClosesPaidTrip(df, i)
            => IF is_payment_transaction(df[i])
               THEN /\ is_dd[i] = TRUE
                    /\ dd_refund[i] = 3500
                    /\ dd_step[i] = <<"DD: Payment ke-", 2>>
               ELSE /\ is_dd[i] = FALSE
                    /\ dd_refund[i] = 0

(* A paying GATE_OUT closing a trip whose IN leg paid was analysed.         *)
C10_Witness ==
    \E i \in Analysed :
        /\ ClosesPaidTrip(df, i)
        /\ is_payment_transaction(df[i])
        /\ is_dd[i] = TRUE
        /\ dd_refund[i] = 3500

(* An IN tap of the card at the station of row i exists at the time of row *)
(* i at a later table position, or within the 5 minutes after it.           *)
ConcurrentInExists(d, i) ==
    \E j \in 1..Len(d) :
        /\ d[j].card_number_var = d[i].card_number_var
        /\ IsIn(d[j].trx)
        /\ is_same_terminal_group(d[i].terminal_name_var, d[j].terminal_name_var)
        /\ \/ d[j].trx_on = d[i].trx_on /\ j > i
           \/ d[j].trx_on > d[i].trx_on
              /\ d[j].trx_on <= d[i].trx_on + Minutes(5)

ConcurrentSteps ==
    {"DD: UNBLOKIR bersamaan PERSIS dengan IN di terminal sama",
     "DD: UNBLOKIR bersamaan dengan IN di terminal sama"}

(* C6 as stated: a deduction UNBLOKIR with a concurrent or near-concurrent  *)
(* IN at the same station is DD with refund |fare|, 'concurrent with IN'.   *)
C6_DeductionConcurrentIsDD ==
    \A i \in Analysed :
        (/\ "UNBLOKIR" \in df[i].trx
         /\ df[i].deduct_boo = TRUE
         /\ ConcurrentInExists(df, i))
            => (/\ is_dd[i] = TRUE
                /\ dd_refund[i] = abs(df[i].fare_int)
                /\ dd_step[i][1] \in ConcurrentSteps)

(* C7 as stated: a refund UNBLOKIR after a detected IN-IN pair is not-DD    *)
(* with refund 0 and the reason 'legitimate IN-IN correction'.              *)
C7_RefundAfterInInIsLegit ==
    \A i \in Analysed :
        (/\ "UNBLOKIR" \in df[i].trx
         /\ df[i].deduct_boo = FALSE
         /\ detect_in_in_case(df, i) # <<>>)
            => (/\ is_dd[i] = FALSE
                /\ dd_refund[i] = 0
                /\ dd_step[i][1] = "Sah: UNBLOKIR refund koreksi IN-IN case")

(* C8 as stated: an UNBLOKIR with no concurrent IN, no IN-IN case and no    *)
(* unpaid trip is DD with refund |fare|, for both values of deduct_flag.    *)
C8_UnjustifiedUnblokirIsDD ==
    \A i \in Analysed :
        (/\ "UNBLOKIR" \in df[i].trx
         /\ ~ConcurrentInExists(df, i)
         /\ detect_in_in_case(df, i) = <<>>
         /\ find_last_unpaid_trip(df, i) = <<>>)
            => (/\ is_dd[i] = TRUE
                /\ dd_refund[i] = abs(df[i].fare_int)
                /\ dd_step[i][1] =
                       IF df[i].deduct_boo
                       THEN "DD: UNBLOKIR tanpa trip yang perlu dibayar"
                       ELSE "DD: UNBLOKIR refund tanpa justifikasi")

(* C9 as stated: with an unpaid trip that is not subsidy-eligible, a        *)
(* concurrent IN and no IN-IN case, a deduction UNBLOKIR is DD with refund  *)
(* |fare| ('concurrent with IN') and a refund UNBLOKIR is not-DD with       *)
(* refund 0 ('legitimate refund for unpaid trip').                          *)
C9_PriorityByUnblokirType ==
    \A i \in Analysed :
        (/\ "UNBLOKIR" \in df[i].trx
         /\ find_last_unpaid_trip(df, i) # <<>>
         /\ ~(/\ InSubsidyWindow(find_last_unpaid_trip(df, i)[1].start_time)
              /\ abs(df[i].fare_int) = 3500)
         /\ ConcurrentInExists(df, i)
         /\ detect_in_in_case(df, i) = <<>>)
            => IF df[i].deduct_boo
               THEN /\ is_dd[i] = TRUE
                    /\ dd_refund[i] = abs(df[i].fare_int)
                    /\ dd_step[i][1] \in ConcurrentSteps
               ELSE /\ is_dd[i] = FALSE
                    /\ dd_refund[i] = 0
                    /\ dd_step[i][1] = "Sah: UNBLOKIR refund untuk trip"

(* Classifying row i raises an exception inside is_double_deduct.           *)
RaisesAt(d, i) == Raised(is_double_deduct_try(d, i))

(* C11: an analysed event whose classification raised is recorded as not-DD *)
(* with refund 0 and a reason embedding the message of the exception; the   *)
(* loop goes on after it, so that the batch ends only after the last row    *)
(* and every row then carries a verdict.                                    *)
C11_FailSoftPerEvent ==
    /\ \A i \in Analysed :
           RaisesAt(df, i)
               => (/\ is_dd[i] = FALSE
                   /\ dd_refund[i] = 0
                   /\ dd_step[i] = <<"Error: ",
                                     is_double_deduct_try(df, i).message>>)
    /\ pc = "done" => pos = Len(df) + 1
    /\ \A i \in Analysed : dd_step[i][1] # ""

(* The batch is finished, the classification of its first row raised, and   *)
(* a later paying tap was flagged DD.                                       *)
C11_Witness ==
    /\ pc = "done"
    /\ Len(df) >= 2
    /\ RaisesAt(df, 1)
    /\ dd_step[1][1] = "Error: "
    /\ \E j \in 2..Len(df) : ~RaisesAt(df, j) /\ is_dd[j] = TRUE

(* The table as it enters the batch: the verdict columns hold the values of *)
(* lines 684-687 on every row.                                              *)
InputFrame ==
    Frame(df, [i \in 1..Len(df) |-> FALSE], [i \in 1..Len(df) |-> 0],
          [i \in 1..Len(df) |-> <<"", 0>>], [i \in 1..Len(df) |-> FALSE])

(* Row i carries the verdict v in the four verdict columns.                 *)
Carries(i, v) ==
    /\ is_dd[i] = v.is_dd
    /\ dd_refund[i] = v.refund_amount
    /\ dd_step[i] = v.detected_step
    /\ is_integration[i] = v.is_integration

(* C12: every analysed row carries the verdict of is_double_deduct          *)
(* evaluated on the input table (no verdict written yet), the rows not yet  *)
(* analysed carry the initial columns, and the batch ends with every row    *)
(* analysed.                                                                *)
C12_BatchEqualsIndependentClassify ==
    /\ \A i \in Analysed : Carries(i, is_double_deduct(InputFrame, i))
    /\ \A i \in 1..Len(df) \ Analysed :
           Carries(i, Verdict(FALSE, 0, <<"", 0>>, FALSE))
    /\ pc = "done" => Analysed = 1..Len(df)

(* The batch is finished; the first row was flagged DD and a later row of   *)
(* the same card, classified with that flag already written, is DD as a     *)
(* second payment.                                                          *)
C12_Witness ==
    /\ pc = "done"
    /\ Len(df) >= 2
    /\ is_dd[1] = TRUE
    /\ \E j \in 2..Len(df) :
          /\ df[j].card_number_var = df[1].card_number_var
          /\ dd_step[j] = <<"DD: Payment ke-", 2>>

(* The rows of card c, in table order, and the place of row i among the     *)
(* rows of its own card.                                                    *)
OfCard(d, c) ==
    LET Test(row) == row.card_number_var = c
    IN  SelectSeq(d, Test)

RankInCard(d, i) ==
    Cardinality({j \in 1..i : d[j].card_number_var = d[i].card_number_var})

(* C13: every analysed row carries the is_dd, refund and is_integration     *)
(* that is_double_deduct gives the same event in the table holding only the *)
(* rows of its card, in the same relative order; so any two tables that     *)
(* agree on the rows of a card agree on the verdicts of that card.          *)
C13_VerdictDependsOnOwnCardOnly ==
    \A i \in Analysed :
        /\ is_dd[i] =
               is_double_deduct(OfCard(df, df[i].card_number_var),
                                RankInCard(df, i)).is_dd
        /\ dd_refund[i] =
               is_double_deduct(OfCard(df, df[i].card_number_var),
                                RankInCard(df, i)).refund_amount
        /\ is_integration[i] =
               is_double_deduct(OfCard(df, df[i].card_number_var),
                                RankInCard(df, i)).is_integration

(* A paying OUT of card 1 was flagged as second payment although a paying   *)
(* IN of card 2 stands between it and the IN of card 1.                     *)
C13_Witness ==
    \E i \in Analysed :
        /\ i = 3
        /\ df[1].card_number_var = 1 /\ df[1].trx = GATE_IN
        /\ df[2].card_number_var = 2 /\ df[2].trx = GATE_IN
        /\ df[3].card_number_var = 1 /\ df[3].trx = GATE_OUT
        /\ df[1].trx_on <= df[3].trx_on
        /\ is_dd[3] = TRUE
        /\ is_integration[3] = TRUE

(* Every card's rows stand in non-decreasing trx_on order by position.      *)
SortedPerCard(d) ==
    \A i \in 1..Len(d) : \A j \in 1..Len(d) :
        (i < j /\ d[i].card_number_var = d[j].card_number_var)
            => d[i].trx_on <= d[j].trx_on

(* C14 as stated: a table in which some card's rows are out of time order   *)
(* is rejected: no row of it is classified and the batch does not return.   *)
C14_UnsortedTableRejected ==
    ~SortedPerCard(df) => (Analysed = {} /\ pc # "done")

(* The number of members of a trip whose table row satisfies                *)
(* is_payment_transaction.                                                  *)
MemberPayments(d, trip) ==
    Cardinality({k \in 1..Len(trip.transactions) :
                    is_payment_transaction(d[trip.transactions[k].idx])})

CountOK(d, trip) ==
    /\ trip.payments_count = MemberPayments(d, trip)
    /\ trip.is_paid <=> trip.payments_count > 0

(* The trips of a replay state: the result list and then the open trip.     *)
TripsOf(st) == st.trips \o st.current_trip

AllCountOK(d, trips) == \A n \in 1..Len(trips) : CountOK(d, trips[n])

(* From one replay state to the next no trip loses a member or a payment.   *)
CountMonotone(before, after) ==
    \A m \in 1..Len(before) : \A n \in 1..Len(after) :
        before[m].start_idx = after[n].start_idx
            => (/\ Len(before[m].transactions) <= Len(after[n].transactions)
                /\ before[m].payments_count <= after[n].payments_count)

ReplayCountsOK(d, s) ==
    /\ \A k \in 0..Len(s) :
           AllCountOK(d, TripsOf(Replay(d, SubSeq(s, 1, k))))
    /\ \A k \in 1..Len(s) :
           CountMonotone(TripsOf(Replay(d, SubSeq(s, 1, k - 1))),
                         TripsOf(Replay(d, SubSeq(s, 1, k))))

(* C16: for every analysed row, after every step of the replay up to that   *)
(* row and in the returned trips, payments_count is the number of members   *)
(* that satisfy is_payment_transaction, it does not decrease from one step  *)
(* to the next, and is_paid holds exactly when payments_count > 0.          *)
C16_PaymentCountIsMemberPayments ==
    \A i \in Analysed :
        /\ ReplayCountsOK(df, card_transactions(df, i))
        /\ AllCountOK(df, get_trips_for_card(df, i))

(* Some returned trip of an analysed row has a paying and a non-paying      *)
(* member: two members, payments_count 1.                                   *)
HasMixedTrip(trips) ==
    \E n \in 1..Len(trips) :
        /\ Len(trips[n].transactions) = 2
        /\ trips[n].payments_count = 1
        /\ trips[n].is_paid

C16_Witness ==
    \E i \in Analysed : HasMixedTrip(get_trips_for_card(df, i))

MoneyColumns == {"fare_int", "balance_before_int", "balance_int"}

PaymentColumns == MoneyColumns \cup {"deduct_boo"}

(* The four conditions of the payment test on the values of the row.        *)
PaymentConditions(deduct_flag, fare, balance_before, balance_after) ==
    /\ deduct_flag = TRUE
    /\ fare > 0
    /\ balance_before > balance_after
    /\ (balance_before - balance_after) - fare \in {-1, 0, 1}

(* The classifier took row i for a payment: it went past the test of line   *)
(* 543 without an exception.                                                *)
TakenAsPayment(i) ==
    dd_step[i][1] \notin {"Bukan transaksi pembayaran", "Error: "}

(* C17 as stated: a non-UNBLOKIR row is taken as a payment exactly when     *)
(* none of the four fields is null or unparseable (an empty or non-numeric  *)
(* string) and the four conditions hold; no exception is recorded.          *)
C17_PaymentIffFourConditions ==
    \A i \in Analysed :
        ~("UNBLOKIR" \in df[i].trx)
            => (/\ dd_step[i][1] # "Error: "
                /\ TakenAsPayment(i) <=>
                       (/\ PaymentColumns \cap
                              (df[i].nulls \cup df[i].empty \cup df[i].text) = {}
                        /\ PaymentConditions(df[i].deduct_boo, df[i].fare_int,
                                             df[i].balance_before_int,
                                             df[i].balance_int)))

(* The names that are null, empty or the UNKNOWN marker of the loader.      *)
NoStationNames == {<<>>, <<"UNKNOWN">>}

(* C18: a returned call of is_same_terminal_group gives the result of the   *)
(* call with the two names swapped; it gives true for a name against itself *)
(* when that name parses to a non-empty station; it gives false when either *)
(* name parses to the empty string, as null, the empty string and UNKNOWN   *)
(* do, also against themselves and each other.                              *)
C18_SameStationRelation ==
    (call # <<>> /\ call[1].result # <<>>)
        => (/\ call[1].result[1] =
                   is_same_terminal_group(call[1].terminal2, call[1].terminal1)
            /\ (/\ call[1].terminal1 = call[1].terminal2
                 /\ parse_terminal_name(call[1].terminal1) # <<>>)
                   => call[1].result[1] = TRUE
            /\ (\/ parse_terminal_name(call[1].terminal1) = <<>>
                 \/ parse_terminal_name(call[1].terminal2) = <<>>)
                   => call[1].result[1] = FALSE
            /\ (\/ call[1].terminal1 \in NoStationNames
                 \/ call[1].terminal2 \in NoStationNames)
                   => call[1].result[1] = FALSE)

(* The call on UNKNOWN and UNKNOWN returned false.                          *)
C18_Witness ==
    /\ call # <<>>
    /\ call[1].terminal1 = <<"UNKNOWN">>
    /\ call[1].terminal2 = <<"UNKNOWN">>
    /\ call[1].result = <<FALSE>>

(* C19 as stated: the is_integration flag of every analysed event is true   *)
(* exactly when its fare is greater than 3500, for an UNBLOKIR event when   *)
(* |fare| is greater than 3500.                                             *)
C19_IntegrationFlagIffFareAbove3500 ==
    \A i \in Analysed :
        is_integration[i] <=>
            IF "UNBLOKIR" \in df[i].trx
            THEN df[i].fare_int > 3500 \/ df[i].fare_int < -3500
            ELSE df[i].fare_int > 3500

RECURSIVE SumOver(_, _)
SumOver(f, S) ==
    IF S = {} THEN 0
    ELSE LET x == CHOOSE y \in S : TRUE
         IN  f[x] + SumOver(f, S \ {x})

-----------------------------------------------------------------------------
(* Properties of get_trips_for_card, checked on the calls of SpecTrips.     *)

(* The replay state after the first k rows of the sequence s.               *)
ReplayAfter(d, s, k) == Replay(d, SubSeq(s, 1, k))

AllCompleted(trips) == \A n \in 1..Len(trips) : trips[n].is_completed

(* An IN tap met with a trip open: the open trip goes to the result list,   *)
(* completed, and the tap starts the new open trip.                         *)
ForceCloses(d, before, after, i) ==
    (IsIn(d[i].trx) /\ before.current_trip # <<>>)
        => /\ after.trips =
                  Append(before.trips,
                         [before.current_trip[1] EXCEPT !.is_completed = TRUE])
           /\ after.current_trip # <<>>
           /\ after.current_trip[1].start_idx = i
           /\ ~after.current_trip[1].is_completed

OneOpenTrip(d, s, trips) ==
    /\ \A n \in 1..(Len(trips) - 1) : trips[n].is_completed
    /\ \A k \in 0..Len(s) :
           /\ AllCompleted(ReplayAfter(d, s, k).trips)
           /\ Len(ReplayAfter(d, s, k).current_trip) <= 1
    /\ \A k \in 1..Len(s) :
           ForceCloses(d, ReplayAfter(d, s, k - 1), ReplayAfter(d, s, k), s[k])

(* C21: in the returned list only the last trip can be not completed; at    *)
(* every step of the replay every trip of the result list is completed and  *)
(* at most one trip is open; an IN tap met with a trip open appends that    *)
(* trip, completed, before it starts the new one.                           *)
C21_AtMostOneOpenTrip ==
    pc = "done"
        => OneOpenTrip(df, card_transactions(df, call[1].current_idx),
                       call[1].result[1])

(* A returned list of two trips or more whose first trip was force-closed   *)
(* by the next IN (one member, completed, no end) and whose last trip is    *)
(* still open.                                                              *)
C21_Witness ==
    /\ pc = "done"
    /\ Len(call[1].result[1]) >= 2
    /\ Len(call[1].result[1][1].transactions) = 1
    /\ call[1].result[1][1].is_completed
    /\ call[1].result[1][1].end_type = "None"
    /\ ~call[1].result[1][Len(call[1].result[1])].is_completed

(* The rows of the sequence s whose kind does not contain UNBLOKIR: the     *)
(* card's rows with the UNBLOKIR rows dropped, index labels kept.           *)
WithoutUnblokir(d, s) ==
    LET Keep(i) == ~IsUnblokir(d[i].trx)
    IN  SelectSeq(s, Keep)

NoUnblokirMember(trips) ==
    \A n \in 1..Len(trips) : \A k \in 1..Len(trips[n].transactions) :
        "UNBLOKIR" \notin trips[n].transactions[k].type

UnblokirIgnored(d, s, idx, trips) ==
    /\ NoUnblokirMember(trips)
    /\ \A k \in 1..Len(s) :
           IsUnblokir(d[s[k]].trx)
               => ReplayAfter(d, s, k) = ReplayAfter(d, s, k - 1)
    /\ trips = CloseLastTrip(Replay(d, WithoutUnblokir(d, s)), d[idx].trx_on)

(* C22: no member of a returned trip has a kind containing UNBLOKIR, an     *)
(* UNBLOKIR row leaves the replay state as it found it, and the returned    *)
(* list is the list obtained with the UNBLOKIR rows of the card dropped     *)
(* (as of the same time).                                                   *)
C22_UnblokirNeverInTrips ==
    pc = "done"
        => UnblokirIgnored(df, card_transactions(df, call[1].current_idx),
                           call[1].current_idx, call[1].result[1])

(* A returned trip of an IN and an OUT with an UNBLOKIR row of the card     *)
(* between the two in the table.                                            *)
C22_Witness ==
    /\ pc = "done"
    /\ \E n \in 1..Len(call[1].result[1]) :
          /\ Len(call[1].result[1][n].transactions) = 2
          /\ \E u \in 1..Len(df) :
                /\ IsUnblokir(df[u].trx)
                /\ call[1].result[1][n].transactions[1].idx < u
                /\ u < call[1].result[1][n].transactions[2].idx

(* The trip that the OUT row i closes: the open trip with the row appended  *)
(* as its last member, completed, its end taken from the row.               *)
ClosedByOut(d, open, closed, i) ==
    /\ closed.transactions[Len(closed.transactions)].idx = i
    /\ SubSeq(closed.transactions, 1, Len(closed.transactions) - 1)
           = open.transactions
    /\ closed.is_completed
    /\ closed.end_time = <<d[i].trx_on>>
    /\ closed.end_terminal = <<d[i].terminal_name_var>>
    /\ closed.end_type = (IF "GATE" \in d[i].trx THEN "GATE_OUT" ELSE "TOB_OUT")
    /\ closed.start_idx = open.start_idx
    /\ closed.start_type = open.start_type

(* Step k of the replay is an OUT met with a trip open: the trip is closed  *)
(* by it, no trip stays open, and the closed trip stands unchanged at its   *)
(* place after every later step and in the returned list.                   *)
OutCloses(d, s, k, before, after, trips) ==
    (IsOut(d[s[k]].trx) /\ before.current_trip # <<>>)
        => /\ after.current_trip = <<>>
           /\ Len(after.trips) = Len(before.trips) + 1
           /\ SubSeq(after.trips, 1, Len(before.trips)) = before.trips
           /\ ClosedByOut(d, before.current_trip[1],
                          after.trips[Len(after.trips)], s[k])
           /\ \A j \in k..Len(s) :
                  ReplayAfter(d, s, j).trips[Len(after.trips)]
                      = after.trips[Len(after.trips)]
           /\ trips[Len(after.trips)] = after.trips[Len(after.trips)]

OutClosesAlways(d, s, trips) ==
    \A k \in 1..Len(s) :
        OutCloses(d, s, k, ReplayAfter(d, s, k - 1), ReplayAfter(d, s, k), trips)

(* C23: an OUT tap (GATE or TOB) met with a trip open, whichever channel    *)
(* opened it, becomes the last member of that trip and closes it with the   *)
(* end time, type and terminal of the tap; no later row of the card changes *)
(* that trip.                                                               *)
C23_OutClosesOpenTrip ==
    pc = "done"
        => OutClosesAlways(df, card_transactions(df, call[1].current_idx),
                           call[1].result[1])

(* A returned first trip opened at a GATE and closed by a TOB [OUT] at the  *)
(* other station, with a later OUT row of the card in the replay.           *)
C23_Witness ==
    /\ pc = "done"
    /\ call[1].result[1] # <<>>
    /\ call[1].result[1][1].start_type = "GATE_IN"
    /\ call[1].result[1][1].end_type = "TOB_OUT"
    /\ call[1].result[1][1].end_terminal = <<TerminalB>>
    /\ \E j \in 1..call[1].current_idx :
          /\ j > call[1].result[1][1].transactions[2].idx
          /\ IsOut(df[j].trx)

(* The time from the start of a trip to the row idx, in ticks.              *)
Elapsed(d, trip, idx) == d[idx].trx_on - trip.start_time

(* The returned list for the final replay state st: the result list and,    *)
(* when a trip is open, that trip as the last one, completed exactly when   *)
(* more than 4 hours have passed at the row idx.                            *)
AutoCompletes(d, st, idx, trips) ==
    IF st.current_trip = <<>> THEN trips = st.trips
    ELSE /\ Len(trips) = Len(st.trips) + 1
         /\ SubSeq(trips, 1, Len(st.trips)) = st.trips
         /\ trips[Len(trips)] =
                [st.current_trip[1] EXCEPT !.is_completed =
                    (Elapsed(d, st.current_trip[1], idx) > 4 * 3600 * TicksPerSecond)]

(* C24: the trip still open after the replay is returned as the last trip,  *)
(* completed if and only if the row at the index stands more than 4 hours   *)
(* after the trip's start.                                                  *)
C24_OpenTripAutoCompletedAfterFourHours ==
    pc = "done"
        => AutoCompletes(df, Replay(df, card_transactions(df, call[1].current_idx)),
                         call[1].current_idx, call[1].result[1])

(* The row at the index stands exactly 4 hours after the IN that opened the *)
(* last trip, and the trip is returned not completed.                       *)
C24_Witness ==
    /\ pc = "done"
    /\ call[1].result[1] # <<>>
    /\ Len(call[1].result[1][Len(call[1].result[1])].transactions) = 1
    /\ Elapsed(df, call[1].result[1][Len(call[1].result[1])],
               call[1].current_idx) = Hours(4)
    /\ ~call[1].result[1][Len(call[1].result[1])].is_completed

MembersWithin(trips, window) ==
    \A n \in 1..Len(trips) : \A k \in 1..Len(trips[n].transactions) :
        trips[n].transactions[k].time - trips[n].start_time <= window

(* C25: every member of a returned trip stands at most 4 hours after the    *)
(* start of the trip (an OUT arriving later than that does not join it).    *)
C25_MembersWithinFourHours ==
    pc = "done" => MembersWithin(call[1].result[1], Hours(MAX_TRIP_HOURS))

-----------------------------------------------------------------------------
(* Properties of the verdicts that rest on the trips.                       *)

(* The place of row i in the replay sequence s.                             *)
PlaceIn(s, i) == CHOOSE k \in 1..Len(s) : s[k] = i

(* Row i is neither an IN nor an UNBLOKIR and the replay reaches it with no *)
(* trip open.                                                               *)
ArrivesWithNoOpenTrip(d, s, i) ==
    /\ ~IsIn(d[i].trx)
    /\ ~IsUnblokir(d[i].trx)
    /\ ReplayAfter(d, s, PlaceIn(s, i) - 1).current_trip = <<>>

InNoTrip(trips, i) ==
    \A n \in 1..Len(trips) :
        /\ trips[n].start_idx # i
        /\ \A k \in 1..Len(trips[n].transactions) :
               trips[n].transactions[k].idx # i

(* The verdict of a first payment: DD with refund 1500 for fare 3500 in the *)
(* subsidy window, not-DD with refund 0 otherwise.                          *)
FirstPaymentVerdict(i) ==
    /\ dd_step[i][1] # "DD: Payment ke-"
    /\ is_dd[i] = (is_subsidi_time(df[i].trx_on) /\ df[i].fare_int = 3500)
    /\ dd_refund[i] = (IF is_dd[i] THEN 1500 ELSE 0)
    /\ dd_step[i][1] = (IF is_dd[i]
                        THEN "DD Subsidi: Jam 05:00-07:00 seharusnya tarif 2000"
                        ELSE "Sah: Payment normal")

DroppedWithNoOpenTrip(d, s, i) ==
    ArrivesWithNoOpenTrip(d, s, i)
        => /\ ReplayAfter(d, s, PlaceIn(s, i)) = ReplayAfter(d, s, PlaceIn(s, i) - 1)
           /\ \A j \in Analysed :
                  (j >= i /\ d[j].card_number_var = d[i].card_number_var)
                      => InNoTrip(get_trips_for_card(d, j), i)
           /\ is_payment_transaction(d[i]) => FirstPaymentVerdict(i)

(* C26: an analysed row that is neither an IN nor an UNBLOKIR and arrives   *)
(* with no trip open leaves the replay state as it found it, is a member of *)
(* no trip returned for it or for a later row of the card and, when it is a *)
(* payment, carries the verdict of a first payment, never "Payment ke-N".   *)
C26_OrphanEventInNoTrip ==
    \A i \in Analysed : DroppedWithNoOpenTrip(df, card_transactions(df, i), i)

(* A paying IN, a paying OUT that closes the trip, and a second paying OUT  *)
(* right after it, classified as a normal payment.                          *)
C26_Witness ==
    /\ pos > 3
    /\ IsIn(df[1].trx) /\ is_payment_transaction(df[1])
    /\ IsOut(df[2].trx) /\ is_payment_transaction(df[2])
    /\ IsOut(df[3].trx) /\ is_payment_transaction(df[3])
    /\ ArrivesWithNoOpenTrip(df, card_transactions(df, 3), 3)
    /\ dd_step[3] = <<"Sah: Payment normal", 0>>

-----------------------------------------------------------------------------
(* Properties of detect_in_in_case, checked on the calls of SpecInIn.       *)

(* Two IN rows of the card of row idx stand at table positions before idx   *)
(* with no OUT or UNBLOKIR row of the card between them.                    *)
TwoInsInARow(d, idx) ==
    \E a \in 1..(idx - 1) : \E b \in (a + 1)..(idx - 1) :
        /\ d[a].card_number_var = d[idx].card_number_var
        /\ d[b].card_number_var = d[idx].card_number_var
        /\ IsIn(d[a].trx)
        /\ IsIn(d[b].trx)
        /\ \A m \in (a + 1)..(b - 1) :
               d[m].card_number_var = d[idx].card_number_var
                   => ("[OUT]" \notin d[m].trx /\ "UNBLOKIR" \notin d[m].trx)

(* C27: the call reports an IN-IN case if and only if two IN rows of the    *)
(* card stand at table positions before the index with no OUT or UNBLOKIR   *)
(* between them, rows sharing the time of the target row included.          *)
C27_InInIffTwoInsBeforeIndex ==
    pc = "done"
        => ((call[1].result[1] # <<>>) <=> TwoInsInARow(df, call[1].current_idx))

-----------------------------------------------------------------------------
(* Properties of find_last_unpaid_trip, checked on the calls of SpecUnpaid. *)

ContainsRow(trip, idx) ==
    \E k \in 1..Len(trip.transactions) : trip.transactions[k].idx = idx

HasPayingOut(trip) ==
    \E k \in 1..Len(trip.transactions) :
        /\ trip.transactions[k].is_payment
        /\ "[OUT]" \in trip.transactions[k].type

(* A trip that still wants a payment at the time of row idx.                *)
Qualifies(d, trip, idx) ==
    \/ trip.payments_count = 0
    \/ ~trip.is_completed /\ Elapsed(d, trip, idx) > 3600 * TicksPerSecond
    \/ trip.is_completed /\ trip.payments_count > 0 /\ ~HasPayingOut(trip)

(* The candidates: the places in the trip list of the trips that do not     *)
(* contain the row and qualify.                                             *)
UnpaidCandidates(d, trips, idx) ==
    {n \in 1..Len(trips) :
        ~ContainsRow(trips[n], idx) /\ Qualifies(d, trips[n], idx)}

MostRecentUnpaid(d, trips, idx, returned) ==
    IF UnpaidCandidates(d, trips, idx) = {} THEN returned = <<>>
    ELSE returned =
             <<trips[CHOOSE n \in UnpaidCandidates(d, trips, idx) :
                        \A m \in UnpaidCandidates(d, trips, idx) : m <= n]>>

(* C28: the call returns; the value is the most recent trip that does not   *)
(* contain the target row and has no payment, or is open for more than an   *)
(* hour, or is completed and paid but with no paying OUT; it is None when   *)
(* there is no such trip.                                                   *)
C28_ReturnsMostRecentUnpaidTrip ==
    pc = "done"
        => /\ ~Raised(call[1].result[1])
           /\ MostRecentUnpaid(df, get_trips_for_card(df, call[1].current_idx),
                               call[1].current_idx, call[1].result[1].value)

(* The table cut after row i: the rows at later positions removed.          *)
UpTo(d, i) == SubSeq(d, 1, i)

CarriesPrefixVerdict(i, v) ==
    /\ is_dd[i] = v.is_dd
    /\ dd_refund[i] = v.refund_amount
    /\ is_integration[i] = v.is_integration

(* C29: every analysed row whose kind does not contain UNBLOKIR carries the *)
(* is_dd, refund and is_integration that is_double_deduct gives it in the   *)
(* table cut after the row; so two tables that agree up to the row agree on *)
(* its verdict, whatever stands at the later positions.                     *)
C29_VerdictDependsOnPrefixOnly ==
    \A i \in Analysed :
        ~IsUnblokir(df[i].trx)
            => CarriesPrefixVerdict(i, is_double_deduct(UpTo(df, i), i))

(* The batch is finished; a paying OUT was classified as a normal payment   *)
(* although a paying IN of the same card with an earlier time stands at a   *)
(* later position of the table.                                             *)
C29_Witness ==
    /\ pc = "done"
    /\ \E i \in 1..Len(df) : \E j \in (i + 1)..Len(df) :
          /\ IsOut(df[i].trx)
          /\ is_payment_transaction(df[i])
          /\ dd_step[i] = <<"Sah: Payment normal", 0>>
          /\ df[j].card_number_var = df[i].card_number_var
          /\ IsIn(df[j].trx)
          /\ is_payment_transaction(df[j])
          /\ df[j].trx_on < df[i].trx_on

-----------------------------------------------------------------------------
(* The shape of the trips returned by get_trips_for_card (SpecTrips).       *)

(* One IN member, the first, which is the start of the trip; at most one    *)
(* other member, an OUT; no more than two payments.                         *)
TripShape(trip) ==
    /\ Len(trip.transactions) \in {1, 2}
    /\ trip.transactions[1].idx = trip.start_idx
    /\ IsIn(trip.transactions[1].type)
    /\ Len(trip.transactions) = 2
           => (/\ IsOut(trip.transactions[2].type)
               /\ ~IsIn(trip.transactions[2].type))
    /\ trip.payments_count <= 2

(* No row is a member of two trips, or twice a member of one.               *)
MembersDisjoint(trips) ==
    \A n, m \in 1..Len(trips) :
        \A k \in 1..Len(trips[n].transactions) :
            \A l \in 1..Len(trips[m].transactions) :
                trips[n].transactions[k].idx = trips[m].transactions[l].idx
                    => (n = m /\ k = l)

(* C31: every returned trip has exactly one IN member, its first member and *)
(* its start; at most one other member, an OUT, which is last; at most two  *)
(* payments; and no row is a member of two trips.                           *)
C31_TripIsOneInAndAtMostOneOut ==
    pc = "done"
        => /\ \A n \in 1..Len(call[1].result[1]) :
                  TripShape(call[1].result[1][n])
           /\ MembersDisjoint(call[1].result[1])

(* Three IN and OUT taps of the card were replayed into a trip of a paying  *)
(* IN and a paying OUT (two payments) and another trip of one member.       *)
C31_Witness ==
    /\ pc = "done"
    /\ Len(call[1].result[1]) = 2
    /\ \E n \in 1..2 :
          /\ Len(call[1].result[1][n].transactions) = 2
          /\ call[1].result[1][n].payments_count = 2
          /\ Len(call[1].result[1][3 - n].transactions) = 1

====
